---- MODULE Spec2Model ----
(***************************************************************************)
(* Quiz lifecycle, nested update transaction and attempt ledger of         *)
(* quizz-node (src/src/api/v1/quiz/controller.js), over the tables of the  *)
(* Prisma migration (src/unnamed/part_003).                                *)
(*                                                                         *)
(* A request body is a record whose absent JSON fields are absent record   *)
(* fields.  A stored or submitted timestamp is an integer; NULL is SQL     *)
(* null / JSON null and INVALID is a string that new Date() cannot parse.  *)
(* Rows of quizzes and questions are never removed, so their SERIAL id is  *)
(* their position in the table; options rows are removed by updateQuiz, so *)
(* they carry their id and the table has a sequence.  Ids are opaque       *)
(* labels: a statement that fails takes none, so gaps are not modelled.    *)
(* The users table is read only; the handlers never write it.              *)
(***************************************************************************)
EXTENDS Integers, Sequences, FiniteSets, Bags, TLC

VARIABLES quizzes, questions, options, options_id_seq, quiz_assignments,
          quiz_scores, now, creating, submitting, last

vars == <<quizzes, questions, options, options_id_seq, quiz_assignments,
          quiz_scores, now, creating, submitting, last>>

\* The stored records (every table; the id sequence is not a record).
records == <<quizzes, questions, options, quiz_assignments, quiz_scores>>

(***************************************************************************)
(* Bounds                                                                  *)
(***************************************************************************)
MaxQuizzes == 2
MaxQuestions == 3
MaxOptionId == 4
MaxTime == 1
MaxCreating == 2
MaxSubmitting == 2
MaxScores == 2

(***************************************************************************)
(* Values                                                                  *)
(***************************************************************************)
NULL == 0
INVALID == -1

\* users table: id -> role (rows are written by the auth routes only).
users == (1 :> "ADMIN") @@ (2 :> "USER") @@ (3 :> "USER")

\* The QuizStatus enum as the handlers and their API documentation use it
\* (the first migration has no DELETED yet; deleteQuiz stores it).
QuizStatus == {"DRAFT", "LIVE", "EXPIRED", "DELETED"}

NoResponse == [op |-> "none"]

Has(r, f) == f \in DOMAIN r

\* JavaScript truthiness of a string field: absent and "" are falsy.
Truthy(r, f) == Has(r, f) /\ r[f] # ""

\* JavaScript truthiness of expires_at: absent and null are falsy.
TruthyDate(r) == Has(r, "expires_at") /\ r.expires_at # NULL

\* new Date(x): an unparseable string gives an Invalid Date (getTime() NaN).
NewDate(x) == IF x = INVALID THEN INVALID ELSE x
IsNaNDate(d) == d = INVALID

Range(s) == {s[i] : i \in DOMAIN s}

RECURSIVE SetToSeq(_)
SetToSeq(S) ==
  IF S = {} THEN <<>>
  ELSE LET m == CHOOSE x \in S : \A y \in S : x <= y
       IN <<m>> \o SetToSeq(S \ {m})

\* Optional-field record builders for request bodies.
Empty == [x \in {} |-> TRUE]
Opt(f, V) == {Empty} \cup {f :> v : v \in V}
Merge(A, B) == {a @@ b : a \in A, b \in B}

(***************************************************************************)
(* createQuiz                                                              *)
(***************************************************************************)
\* Strings shorter than the Joi minimum of the field they are used in.
TooShort == {"", "ab"}

ValidOption(o) == Has(o, "value") /\ o.value # ""

ValidQuestion(q) ==
  /\ Has(q, "question_text") /\ q.question_text \notin TooShort
  /\ Has(q, "options") /\ Len(q.options) >= 1
  /\ \A i \in DOMAIN q.options : ValidOption(q.options[i])

\* createQuizSchema.validate(req.body)
createQuizSchema(body) ==
  /\ Has(body, "name") /\ body.name \notin TooShort
  /\ Has(body, "questions") /\ Len(body.questions) >= 1
  /\ \A i \in DOMAIN body.questions : ValidQuestion(body.questions[i])
  /\ Has(body, "assigned_user_ids")
  /\ \A i \in DOMAIN body.assigned_user_ids : body.assigned_user_ids[i] > 0

\* A user lookup without the role filter.
validAssignedUserIdsAnyRole(ids) ==
  SetToSeq({u \in DOMAIN users : u \in Range(ids)})

\* prisma.users.findMany({ id in ids, role USER }): the matching rows, once each.
validAssignedUserIds(ids) ==
  SetToSeq({u \in DOMAIN users : u \in Range(ids) /\ users[u] = "USER"})

\* A name lookup that passes over soft-deleted quizzes.
existingQuizNotDeleted(name) ==
  \E i \in DOMAIN quizzes :
    quizzes[i].name = name /\ quizzes[i].status # "DELETED"

\* prisma.quizzes.findUnique({ where: { name } })
existingQuiz(name) == \E i \in DOMAIN quizzes : quizzes[i].name = name

\* A quizzes table without the unique index on name.
quizzes_name_key_dropped(qs, id, name) == FALSE

\* The unique index quizzes_name_key: writing name into row id (0 for a new
\* row) of the table qs is refused when another row holds the name.
quizzes_name_key(qs, id, name) ==
  \E i \in DOMAIN qs : i # id /\ qs[i].name = name

IsCorrect(o) == IF Has(o, "is_correct") THEN o.is_correct ELSE FALSE

\* Option rows for the first option of the request's list only.
NewOptionsFirstOnly(opts, qid, seq) ==
  [i \in DOMAIN opts \cap {1} |->
     [id |-> seq + i, question_id |-> qid, value |-> opts[i].value,
      is_correct |-> IsCorrect(opts[i])]]

\* The option rows created for question qid from the request's option list,
\* numbered from the sequence value seq.
NewOptions(opts, qid, seq) ==
  [i \in DOMAIN opts |->
     [id |-> seq + i, question_id |-> qid, value |-> opts[i].value,
      is_correct |-> IsCorrect(opts[i])]]

RECURSIVE CreateQuestions(_, _, _, _)
\* Nested create of the questions qs (from index k) of quiz qid.
CreateQuestions(qs, k, qid, T) ==
  IF k > Len(qs) THEN T
  ELSE LET q == qs[k]
           newQ == Append(T.questions,
                          [quiz_id |-> qid, question_text |-> q.question_text])
           newO == NewOptions(q.options, Len(newQ), T.options_id_seq)
       IN CreateQuestions(qs, k + 1, qid,
            [questions |-> newQ,
             options |-> T.options \cup Range(newO),
             options_id_seq |-> T.options_id_seq + Len(newO)])

RECURSIVE OptionCount(_, _)
\* Number of option rows the question entries qs (from index k) carry.
OptionCount(qs, k) ==
  IF k > Len(qs) THEN 0
  ELSE (IF Has(qs[k], "options") THEN Len(qs[k].options) ELSE 0)
       + OptionCount(qs, k + 1)

Respond(op, caller, quizId, body, code, message) ==
  [op |-> op, caller |-> caller, quizId |-> quizId, body |-> body,
   code |-> code, message |-> message]

\* createQuiz up to its duplicate-name check (controller.js 7-56).
CreateQuizCheck(caller, body) ==
  LET reject(code, message) ==
        /\ last' = Respond("createQuiz", caller, 0, body, code, message)
        /\ UNCHANGED creating
  IN
  /\ IF users[caller] # "ADMIN"
       THEN reject(403, "Only admins can create quizzes")
     ELSE IF ~createQuizSchema(body)
       THEN reject(400, "Validation failed")
     ELSE IF Len(validAssignedUserIds(body.assigned_user_ids))
               # Len(body.assigned_user_ids)
       THEN reject(400, "Some assigned users do not exist or are not USER role")
     ELSE IF existingQuiz(body.name)
       THEN reject(400, "Quiz with name already exists")
     ELSE /\ BagCardinality(creating) < MaxCreating
          /\ creating' = creating (+) SetToBag({[caller |-> caller, body |-> body]})
          /\ last' = NoResponse
  /\ UNCHANGED <<quizzes, questions, options, options_id_seq,
                 quiz_assignments, quiz_scores, now, submitting>>

\* createQuiz from prisma.quizzes.create on (controller.js 58-98).  The
\* nested create is one statement; the unique index quizzes_name_key makes
\* it throw when the name is held, and the catch answers 500.
CreateQuizInsert(r) ==
  /\ BagIn(r, creating)
  /\ creating' = creating (-) SetToBag({r})
  /\ IF quizzes_name_key(quizzes, 0, r.body.name)
       THEN /\ last' = Respond("createQuiz", r.caller, 0, r.body, 500,
                               "Quiz cannot be created")
            /\ UNCHANGED <<quizzes, questions, options, options_id_seq,
                           quiz_assignments>>
       ELSE /\ Len(quizzes) < MaxQuizzes
            /\ Len(questions) + Len(r.body.questions) <= MaxQuestions
            /\ options_id_seq + OptionCount(r.body.questions, 1) <= MaxOptionId
            /\ LET qid == Len(quizzes) + 1
                   T == CreateQuestions(r.body.questions, 1, qid,
                          [questions |-> questions, options |-> options,
                           options_id_seq |-> options_id_seq])
                   ids == validAssignedUserIds(r.body.assigned_user_ids)
               IN /\ quizzes' = Append(quizzes,
                       [name |-> r.body.name, creator_id |-> r.caller,
                        expires_at |-> NULL, status |-> "DRAFT"])
                  /\ questions' = T.questions
                  /\ options' = T.options
                  /\ options_id_seq' = T.options_id_seq
                  /\ quiz_assignments' = quiz_assignments \o
                       [i \in DOMAIN ids |-> [quiz_id |-> qid, user_id |-> ids[i]]]
                  /\ last' = Respond("createQuiz", r.caller, qid, r.body, 201,
                                     "Quiz created")
  /\ UNCHANGED <<quiz_scores, now, submitting>>

(***************************************************************************)
(* deleteQuiz, makeQuizLive                                                *)
(***************************************************************************)
\* deleteQuiz (controller.js 200-233)
DeleteQuiz(caller, quizId) ==
  /\ IF users[caller] # "ADMIN"
       THEN /\ last' = Respond("deleteQuiz", caller, quizId, Empty, 403,
                               "Only admins can delete quizzes")
            /\ UNCHANGED quizzes
     ELSE IF quizId \notin DOMAIN quizzes
       THEN /\ last' = Respond("deleteQuiz", caller, quizId, Empty, 500,
                               "Failed to update quiz status")
            /\ UNCHANGED quizzes
     ELSE /\ quizzes' = [quizzes EXCEPT ![quizId].status = "DELETED"]
          /\ last' = Respond("deleteQuiz", caller, quizId, Empty, 200,
                             "Quiz statue updated")
  /\ UNCHANGED <<questions, options, options_id_seq, quiz_assignments,
                 quiz_scores, now, creating, submitting>>

\* makeQuizLive (controller.js 235-283)
MakeQuizLive(caller, quizId, body) ==
  LET reject(code, message) ==
        /\ last' = Respond("makeQuizLive", caller, quizId, body, code, message)
        /\ UNCHANGED quizzes
  IN
  /\ IF ~TruthyDate(body) \/ IsNaNDate(NewDate(body.expires_at))
       THEN reject(400, "Expiration date is required to make the quiz live")
     ELSE IF ~Truthy(body, "status")
       THEN reject(400, "Status is required LIVE | DRAFT")
     ELSE IF users[caller] # "ADMIN"
       THEN reject(403, "Only admins can make the quiz live")
     ELSE IF quizId \notin DOMAIN quizzes \/ body.status \notin QuizStatus
       THEN reject(500, "Failed to update quiz")
     ELSE /\ quizzes' = [quizzes EXCEPT
               ![quizId].status = body.status,
               ![quizId].expires_at =
                  IF body.status = "LIVE" THEN NewDate(body.expires_at) ELSE NULL]
          /\ last' = Respond("makeQuizLive", caller, quizId, body, 200,
                             "Quiz status updated")
  /\ UNCHANGED <<questions, options, options_id_seq, quiz_assignments,
                 quiz_scores, now, creating, submitting>>

(***************************************************************************)
(* updateQuiz                                                              *)
(***************************************************************************)
\* The tables as the transaction sees them; ok turns FALSE when a statement
\* throws, at names the statement.
TxBegin ==
  [quizzes |-> quizzes, quiz_assignments |-> quiz_assignments,
   questions |-> questions, options |-> options,
   options_id_seq |-> options_id_seq, ok |-> TRUE, at |-> "none"]

Throw(T, stmt) == [T EXCEPT !.ok = FALSE, !.at = stmt]

\* A quiz row update that stores null for an expires_at the request omits.
TxUpdateQuizRowResetsExpiry(T, quizId, body) ==
  IF \/ quizId \notin DOMAIN T.quizzes
     \/ Truthy(body, "status") /\ body.status \notin QuizStatus
     \/ TruthyDate(body) /\ IsNaNDate(NewDate(body.expires_at))
     \/ Truthy(body, "name") /\ quizzes_name_key(T.quizzes, quizId, body.name)
    THEN Throw(T, "quizzes.update")
  ELSE LET old == T.quizzes[quizId]
           row == [old EXCEPT
                     !.name = IF Truthy(body, "name") THEN body.name ELSE @,
                     !.status = IF Truthy(body, "status") THEN body.status ELSE @,
                     !.expires_at = IF TruthyDate(body)
                                      THEN NewDate(body.expires_at) ELSE NULL]
       IN [T EXCEPT !.quizzes[quizId] = row]

\* tx.quizzes.update (controller.js 117-125)
TxUpdateQuizRow(T, quizId, body) ==
  IF \/ quizId \notin DOMAIN T.quizzes
     \/ Truthy(body, "status") /\ body.status \notin QuizStatus
     \/ TruthyDate(body) /\ IsNaNDate(NewDate(body.expires_at))
     \/ Truthy(body, "name") /\ quizzes_name_key(T.quizzes, quizId, body.name)
    THEN Throw(T, "quizzes.update")
  ELSE LET old == T.quizzes[quizId]
           row == [old EXCEPT
                     !.name = IF Truthy(body, "name") THEN body.name ELSE @,
                     !.status = IF Truthy(body, "status") THEN body.status ELSE @,
                     !.expires_at = IF TruthyDate(body)
                                      THEN NewDate(body.expires_at) ELSE @]
       IN [T EXCEPT !.quizzes[quizId] = row]

\* An assignment step that adds the new rows and keeps the old ones.
TxAddAssignments(T, quizId, body) ==
  IF ~Has(body, "assigned_user_ids") THEN T
  ELSE LET ids == body.assigned_user_ids
       IN IF \E i \in DOMAIN ids : ids[i] \notin DOMAIN users
            THEN Throw(T, "quiz_assignments.createMany")
          ELSE [T EXCEPT !.quiz_assignments = @ \o
                  [i \in DOMAIN ids |-> [quiz_id |-> quizId, user_id |-> ids[i]]]]

\* deleteMany and createMany of quiz_assignments (controller.js 127-142)
TxReplaceAssignments(T, quizId, body) ==
  IF ~Has(body, "assigned_user_ids") THEN T
  ELSE LET ids == body.assigned_user_ids
           kept == SelectSeq(T.quiz_assignments, LAMBDA a : a.quiz_id # quizId)
       IN IF \E i \in DOMAIN ids : ids[i] \notin DOMAIN users
            THEN Throw([T EXCEPT !.quiz_assignments = kept],
                       "quiz_assignments.createMany")
          ELSE [T EXCEPT !.quiz_assignments = kept \o
                  [i \in DOMAIN ids |-> [quiz_id |-> quizId, user_id |-> ids[i]]]]

\* A loop entry that takes every question entry as a new question.
TxInsertQuestion(T, quizId, q) ==
  LET opts == IF Has(q, "options") THEN q.options ELSE <<>>
  IN IF \/ ~Has(q, "question_text")
        \/ \E i \in DOMAIN opts : ~Has(opts[i], "value")
       THEN Throw(T, "questions.create")
     ELSE LET newQ == Append(T.questions,
                             [quiz_id |-> quizId,
                              question_text |-> q.question_text])
              newO == NewOptions(opts, Len(newQ), T.options_id_seq)
          IN [T EXCEPT !.questions = newQ,
                       !.options = @ \cup Range(newO),
                       !.options_id_seq = @ + Len(newO)]

\* A loop entry that adds the supplied options to those the question has.
TxUpsertQuestionKeepOptions(T, quizId, q) ==
  IF Has(q, "id") /\ q.id # 0
    THEN IF q.id \notin DOMAIN T.questions
           THEN Throw(T, "questions.update")
         ELSE LET T1 == IF Truthy(q, "question_text")
                          THEN [T EXCEPT !.questions[q.id].question_text =
                                           q.question_text]
                        ELSE T
              IN IF ~Has(q, "options") THEN T1
                 ELSE IF \E i \in DOMAIN q.options : ~Has(q.options[i], "value")
                           THEN Throw(T1, "options.createMany")
                      ELSE LET newO == NewOptions(q.options, q.id,
                                                  T1.options_id_seq)
                           IN [T1 EXCEPT
                                 !.options = @ \cup Range(newO),
                                 !.options_id_seq = @ + Len(newO)]
  ELSE TxInsertQuestion(T, quizId, q)

\* One entry of the questions loop (controller.js 146-181)
TxUpsertQuestion(T, quizId, q) ==
  IF Has(q, "id") /\ q.id # 0
    THEN IF q.id \notin DOMAIN T.questions
           THEN Throw(T, "questions.update")
         ELSE LET T1 == IF Truthy(q, "question_text")
                          THEN [T EXCEPT !.questions[q.id].question_text =
                                           q.question_text]
                        ELSE T
              IN IF ~Has(q, "options") THEN T1
                 ELSE LET T2 == [T1 EXCEPT !.options =
                                   {o \in @ : o.question_id # q.id}]
                      IN IF \E i \in DOMAIN q.options : ~Has(q.options[i], "value")
                           THEN Throw(T2, "options.createMany")
                         ELSE LET newO == NewOptions(q.options, q.id,
                                                     T2.options_id_seq)
                              IN [T2 EXCEPT
                                    !.options = @ \cup Range(newO),
                                    !.options_id_seq = @ + Len(newO)]
  ELSE LET opts == IF Has(q, "options") THEN q.options ELSE <<>>
       IN IF \/ ~Has(q, "question_text")
             \/ \E i \in DOMAIN opts : ~Has(opts[i], "value")
            THEN Throw(T, "questions.create")
          ELSE LET newQ == Append(T.questions,
                             [quiz_id |-> quizId,
                              question_text |-> q.question_text])
                   newO == NewOptions(opts, Len(newQ), T.options_id_seq)
               IN [T EXCEPT !.questions = newQ,
                            !.options = @ \cup Range(newO),
                            !.options_id_seq = @ + Len(newO)]

RECURSIVE TxQuestions(_, _, _, _)
\* The questions loop from entry k on; a throw ends it.
TxQuestions(T, quizId, qs, k) ==
  IF k > Len(qs) \/ ~T.ok THEN T
  ELSE TxQuestions(TxUpsertQuestion(T, quizId, qs[k]), quizId, qs, k + 1)

\* The callback given to prisma.$transaction (controller.js 116-186)
TxBody(T, quizId, body) ==
  LET T1 == TxUpdateQuizRow(T, quizId, body)
      T2 == IF T1.ok THEN TxReplaceAssignments(T1, quizId, body) ELSE T1
  IN IF T2.ok /\ Has(body, "questions")
       THEN TxQuestions(T2, quizId, body.questions, 1)
     ELSE T2

\* A transaction that keeps what ran before the throw.
TransactionWithoutRollback(T0, T) == T

\* prisma.$transaction: commit what the callback did, or roll all of it back
\* when a statement threw.
Transaction(T0, T) == IF T.ok THEN T ELSE T0

\* updateQuiz (controller.js 101-198)
UpdateQuiz(caller, quizId, body) ==
  IF users[caller] # "ADMIN"
    THEN /\ last' = Respond("updateQuiz", caller, quizId, body, 403,
                            "Only admins can update quizzes")
         /\ UNCHANGED <<quizzes, questions, options, options_id_seq,
                        quiz_assignments, quiz_scores, now, creating,
                        submitting>>
  ELSE \E T \in {TxBody(TxBegin, quizId, body)} :
       \E R \in {Transaction(TxBegin, T)} :
          /\ Len(R.questions) <= MaxQuestions
          /\ R.options_id_seq <= MaxOptionId
          /\ quizzes' = R.quizzes
          /\ quiz_assignments' = R.quiz_assignments
          /\ questions' = R.questions
          /\ options' = R.options
          /\ options_id_seq' = R.options_id_seq
          /\ last' = IF T.ok
                       THEN Respond("updateQuiz", caller, quizId, body, 200,
                                    "Quiz updated successfully")
                     ELSE Respond("updateQuiz", caller, quizId, body, 500,
                                  T.at)
          /\ UNCHANGED <<quiz_scores, now, creating, submitting>>

(***************************************************************************)
(* submitQuizAnswers                                                       *)
(***************************************************************************)
\* An eligibility query without the expiry clause.
EligibleWithoutExpiry(userId, quizId) ==
  /\ quizId \in DOMAIN quizzes
  /\ quizzes[quizId].status = "LIVE"
  /\ \E i \in DOMAIN quiz_assignments :
       /\ quiz_assignments[i].quiz_id = quizId
       /\ quiz_assignments[i].user_id = userId

\* The where clause of the eligibility findFirst (controller.js 463-471)
Eligible(userId, quizId) ==
  /\ quizId \in DOMAIN quizzes
  /\ quizzes[quizId].status = "LIVE"
  /\ \E i \in DOMAIN quiz_assignments :
       /\ quiz_assignments[i].quiz_id = quizId
       /\ quiz_assignments[i].user_id = userId
  /\ \/ quizzes[quizId].expires_at = NULL
     \/ quizzes[quizId].expires_at > now

\* A fetch that keeps one correct option of each question.
correctOptionsOnePerQuestion(quizId) ==
  {o \in options :
     /\ o.is_correct /\ questions[o.question_id].quiz_id = quizId
     /\ \A x \in options :
          (x.is_correct /\ x.question_id = o.question_id) => o.id <= x.id}

\* prisma.options.findMany({ is_correct: true, question: { quiz_id } })
\* (controller.js 481-487)
correctOptions(quizId) ==
  {o \in options : o.is_correct /\ questions[o.question_id].quiz_id = quizId}

\* A scoring loop that counts each distinct answer pair once.
correctCountDistinct(answers, correct) ==
  Cardinality({a \in Range(answers) :
                 \E o \in correct : /\ o.question_id = a.question_id
                                    /\ o.id = a.option_id})

\* The scoring loop (controller.js 490-498): one point per answer entry that
\* some fetched correct option matches.
correctCount(answers, correct) ==
  Cardinality({i \in DOMAIN answers :
                 \E o \in correct : /\ o.question_id = answers[i].question_id
                                    /\ o.id = answers[i].option_id})

\* submitQuizAnswers up to the eligibility check (controller.js 450-478)
SubmitCheck(caller, quizId, body) ==
  LET reject(code, message) ==
        /\ last' = Respond("submitQuizAnswers", caller, quizId, body, code, message)
        /\ UNCHANGED submitting
  IN
  /\ IF ~Has(body, "answers") \/ Len(body.answers) = 0
       THEN reject(400, "No answers provided")
     ELSE IF ~Eligible(caller, quizId)
       THEN reject(403, "You are not assigned to this quiz or it has expired")
     ELSE /\ BagCardinality(submitting) < MaxSubmitting
          /\ submitting' = submitting (+) SetToBag({
               [caller |-> caller, quizId |-> quizId, body |-> body,
                pc |-> "score", score |-> 0, total |-> 0, attemptNumber |-> 0]})
          /\ last' = NoResponse
  /\ UNCHANGED <<quizzes, questions, options, options_id_seq,
                 quiz_assignments, quiz_scores, now, creating>>

\* The correct-option fetch and the scoring loop (controller.js 480-498)
SubmitScore(r) ==
  /\ BagIn(r, submitting) /\ r.pc = "score"
  /\ LET correct == correctOptions(r.quizId)
     IN submitting' = (submitting (-) SetToBag({r})) (+) SetToBag({
          [r EXCEPT !.pc = "count",
                    !.score = correctCount(r.body.answers, correct),
                    !.total = Cardinality(correct)]})
  /\ last' = NoResponse
  /\ UNCHANGED <<quizzes, questions, options, options_id_seq,
                 quiz_assignments, quiz_scores, now, creating>>

\* An attempt number that is the bare count of the pair's rows.
attemptNumberFromZero(scores, quizId, userId) ==
  Cardinality({i \in DOMAIN scores : /\ scores[i].quiz_id = quizId
                                     /\ scores[i].user_id = userId})

\* attemptNumber: prisma.quiz_scores.count of the pair, plus 1
\* (controller.js 501-504)
attemptNumber(scores, quizId, userId) ==
  Cardinality({i \in DOMAIN scores : /\ scores[i].quiz_id = quizId
                                     /\ scores[i].user_id = userId}) + 1

\* The count step (controller.js 500-504)
SubmitCount(r) ==
  /\ BagIn(r, submitting) /\ r.pc = "count"
  /\ submitting' = (submitting (-) SetToBag({r})) (+) SetToBag({
       [r EXCEPT !.pc = "insert",
                 !.attemptNumber = attemptNumber(quiz_scores, r.quizId, r.caller)]})
  /\ last' = NoResponse
  /\ UNCHANGED <<quizzes, questions, options, options_id_seq,
                 quiz_assignments, quiz_scores, now, creating>>

\* A score row whose total is the obtained score.
ScoreRowTotalIsScore(r, t) ==
  [user_id |-> r.caller, quiz_id |-> r.quizId,
   score_value_obtained |-> r.score, score_total |-> r.score,
   attempt_number |-> r.attemptNumber, completed_at |-> t]

\* The data of prisma.quiz_scores.create (controller.js 508-515)
ScoreRow(r, t) ==
  [user_id |-> r.caller, quiz_id |-> r.quizId,
   score_value_obtained |-> r.score, score_total |-> r.total,
   attempt_number |-> r.attemptNumber, completed_at |-> t]

\* A write that replaces the pair's latest row instead of adding one.
quiz_scores_upsert(scores, row) ==
  IF \E i \in DOMAIN scores : /\ scores[i].quiz_id = row.quiz_id
                              /\ scores[i].user_id = row.user_id
    THEN LET k == CHOOSE i \in DOMAIN scores :
                    /\ scores[i].quiz_id = row.quiz_id
                    /\ scores[i].user_id = row.user_id
                    /\ \A j \in DOMAIN scores :
                         (scores[j].quiz_id = row.quiz_id
                            /\ scores[j].user_id = row.user_id) => j <= i
         IN [scores EXCEPT ![k] = row]
  ELSE Append(scores, row)

\* prisma.quiz_scores.create: a new row at the end of the table
\* (controller.js 507)
quiz_scores_create(scores, row) == Append(scores, row)

\* prisma.quiz_scores.create and the response (controller.js 506-525)
SubmitInsert(r) ==
  /\ BagIn(r, submitting) /\ r.pc = "insert"
  /\ Len(quiz_scores) < MaxScores
  /\ submitting' = submitting (-) SetToBag({r})
  /\ quiz_scores' = quiz_scores_create(quiz_scores, ScoreRow(r, now))
  /\ last' = Respond("submitQuizAnswers", r.caller, r.quizId, r.body, 200,
                     "Quiz submitted successfully")
              @@ [score |-> r.score, total |-> r.total]
  /\ UNCHANGED <<quizzes, questions, options, options_id_seq,
                 quiz_assignments, now, creating>>

\* Time passes (new Date() is read at each request).
Tick ==
  /\ now < MaxTime
  /\ now' = now + 1
  /\ last' = NoResponse
  /\ UNCHANGED <<quizzes, questions, options, options_id_seq,
                 quiz_assignments, quiz_scores, creating, submitting>>

(***************************************************************************)
(* getAllQuizzes, getQuizById, getQuizResults                              *)
(***************************************************************************)
\* A nullable field of a response: null, or a value.
null == <<>>
Some(v) == <<v>>

Assigned(userId, q) ==
  \E i \in DOMAIN quiz_assignments :
    /\ quiz_assignments[i].quiz_id = q
    /\ quiz_assignments[i].user_id = userId

\* An option select that also returns is_correct.
OptionViewWithFlag(o) ==
  [id |-> o.id, value |-> o.value, is_correct |-> o.is_correct]

\* options: { select: { id: true, value: true } } (controller.js 310-312,
\* 420)
OptionView(o) == [id |-> o.id, value |-> o.value]

\* select of the questions with their options (controller.js 306-314,
\* 417-423) from the option table O; rows come in id order.
QuestionsViewOf(O, q) ==
  LET qids == SetToSeq({i \in DOMAIN questions : questions[i].quiz_id = q})
      optionsView(qid) ==
        LET oids == SetToSeq({o.id : o \in {x \in O : x.question_id = qid}})
        IN [k \in DOMAIN oids |->
              OptionView(CHOOSE x \in O : x.id = oids[k])]
  IN [k \in DOMAIN qids |->
        [id |-> qids[k], question_text |-> questions[qids[k]].question_text,
         options |-> optionsView(qids[k])]]

QuestionsView(q) == QuestionsViewOf(options, q)

\* A listing filter without the status clause.
ListedWithoutStatus(userId, q) ==
  /\ Assigned(userId, q)
  /\ \/ quizzes[q].expires_at = NULL
     \/ quizzes[q].expires_at > now

\* The where clause of getAllQuizzes (controller.js 291-300)
Listed(userId, q) ==
  /\ Assigned(userId, q)
  /\ quizzes[q].status \in {"LIVE"}
  /\ \/ quizzes[q].expires_at = NULL
     \/ quizzes[q].expires_at > now

\* The response of getAllQuizzes over the option table O
\* (controller.js 290-318)
AllQuizzesResponse(O, caller) ==
  LET ids == SetToSeq({q \in DOMAIN quizzes : Listed(caller, q)})
  IN Respond("getAllQuizzes", caller, 0, Empty, 200, "success")
     @@ [data |-> [k \in DOMAIN ids |->
           [id |-> ids[k], name |-> quizzes[ids[k]].name,
            expires_at |-> quizzes[ids[k]].expires_at,
            status |-> quizzes[ids[k]].status,
            questions |-> QuestionsViewOf(O, ids[k])]]]

\* getAllQuizzes (controller.js 285-326)
GetAllQuizzes(caller) ==
  /\ last' = AllQuizzesResponse(options, caller)
  /\ UNCHANGED <<quizzes, questions, options, options_id_seq,
                 quiz_assignments, quiz_scores, now, creating, submitting>>

\* The where clause of getQuizById (controller.js 404-412)
Accessible(userId, quizId) ==
  /\ quizId \in DOMAIN quizzes
  /\ quizzes[quizId].status = "LIVE"
  /\ Assigned(userId, quizId)
  /\ \/ quizzes[quizId].expires_at = NULL
     \/ quizzes[quizId].expires_at > now

\* The response of getQuizById over the option table O
\* (controller.js 403-438)
QuizByIdResponse(O, caller, quizId) ==
  IF ~Accessible(caller, quizId)
    THEN Respond("getQuizById", caller, quizId, Empty, 404,
                 "Quiz not found, expired, or not accessible")
  ELSE Respond("getQuizById", caller, quizId, Empty, 200,
               "Quiz fetched successfully")
       @@ [data |-> [id |-> quizId, name |-> quizzes[quizId].name,
                     expires_at |-> quizzes[quizId].expires_at,
                     questions |-> QuestionsViewOf(O, quizId)]]

\* getQuizById (controller.js 396-446)
GetQuizById(caller, quizId) ==
  /\ last' = QuizByIdResponse(options, caller, quizId)
  /\ UNCHANGED <<quizzes, questions, options, options_id_seq,
                 quiz_assignments, quiz_scores, now, creating, submitting>>

\* A results query that keeps only the quizzes that are LIVE.
ResultQuizzesLiveOnly(userId) ==
  {q \in DOMAIN quizzes : Assigned(userId, q) /\ quizzes[q].status = "LIVE"}

\* The where clause of getQuizResults (controller.js 334-338)
ResultQuizzes(userId) == {q \in DOMAIN quizzes : Assigned(userId, q)}

\* orderBy created_at desc (controller.js 358): the latest created row, the
\* one with the greatest id, comes first.
RECURSIVE NewestFirst(_)
NewestFirst(S) ==
  IF S = {} THEN <<>>
  ELSE LET m == CHOOSE x \in S : \A y \in S : y <= x
       IN <<m>> \o NewestFirst(S \ {m})

\* quizScores where user_id, orderBy attempt_number desc, take 1
\* (controller.js 346-349): the rows the query may return first; rows that
\* tie on attempt_number come in an order the store chooses.
LatestScores(userId, q) ==
  LET mine == {i \in DOMAIN quiz_scores : /\ quiz_scores[i].quiz_id = q
                                          /\ quiz_scores[i].user_id = userId}
  IN {i \in mine : \A j \in mine :
        quiz_scores[j].attempt_number <= quiz_scores[i].attempt_number}

\* A result row that reports a null total when there is no attempt.
ResultRowNullTotal(q, latest) ==
  LET maxScore == Cardinality({i \in DOMAIN questions : questions[i].quiz_id = q})
      attempted == latest # 0
  IN [id |-> q, name |-> quizzes[q].name, status |-> quizzes[q].status,
      expires_at |-> quizzes[q].expires_at, max_score |-> maxScore,
      latest_score |-> IF attempted
                         THEN Some(quiz_scores[latest].score_value_obtained)
                       ELSE null,
      score_total |-> IF attempted THEN Some(quiz_scores[latest].score_total)
                      ELSE null,
      attempt_number |-> IF attempted
                           THEN Some(quiz_scores[latest].attempt_number)
                         ELSE null,
      completed_at |-> IF attempted THEN Some(quiz_scores[latest].completed_at)
                       ELSE null,
      attempted |-> attempted]

\* One element of results (controller.js 361-377); latest is the index of
\* the score row the query returned, 0 when it returned none.
ResultRow(q, latest) ==
  LET maxScore == Cardinality({i \in DOMAIN questions : questions[i].quiz_id = q})
      attempted == latest # 0
  IN [id |-> q, name |-> quizzes[q].name, status |-> quizzes[q].status,
      expires_at |-> quizzes[q].expires_at, max_score |-> maxScore,
      latest_score |-> IF attempted
                         THEN Some(quiz_scores[latest].score_value_obtained)
                       ELSE null,
      score_total |-> IF attempted THEN Some(quiz_scores[latest].score_total)
                      ELSE Some(maxScore),
      attempt_number |-> IF attempted
                           THEN Some(quiz_scores[latest].attempt_number)
                         ELSE null,
      completed_at |-> IF attempted THEN Some(quiz_scores[latest].completed_at)
                       ELSE null,
      attempted |-> attempted]

\* getQuizResults (controller.js 328-394)
GetQuizResults(caller) ==
  /\ LET ids == NewestFirst(ResultQuizzes(caller))
     IN \E pick \in [DOMAIN ids -> 0 .. Len(quiz_scores)] :
          /\ \A k \in DOMAIN ids :
               IF LatestScores(caller, ids[k]) = {} THEN pick[k] = 0
               ELSE pick[k] \in LatestScores(caller, ids[k])
          /\ last' = Respond("getQuizResults", caller, 0, Empty, 200,
                             IF Len(ids) > 0
                               THEN "Quiz results fetched successfully"
                             ELSE "No quizzes assigned to this user")
                     @@ [data |-> [k \in DOMAIN ids |-> ResultRow(ids[k], pick[k])]]
  /\ UNCHANGED <<quizzes, questions, options, options_id_seq,
                 quiz_assignments, quiz_scores, now, creating, submitting>>

(***************************************************************************)
(* Requests                                                                *)
(***************************************************************************)
Callers == {1, 2}
QuizIds == 1 .. MaxQuizzes
Names == {"Alpha", "Beta"}

Question1 ==
  [question_text |-> "What?",
   options |-> <<[value |-> "x", is_correct |-> TRUE], [value |-> "y"]>>]

CreateBody(n, a) ==
  [name |-> n, questions |-> <<Question1>>, assigned_user_ids |-> a]

Init ==
  /\ quizzes = <<>>
  /\ questions = <<>>
  /\ options = {}
  /\ options_id_seq = 0
  /\ quiz_assignments = <<>>
  /\ quiz_scores = <<>>
  /\ now = 0
  /\ creating = EmptyBag
  /\ submitting = EmptyBag
  /\ last = NoResponse

(***************************************************************************)
(* Quiz names: concurrent creates and renames                              *)
(***************************************************************************)
NameCreateBodies == {CreateBody(n, <<2>>) : n \in Names}
RenameBodies == {[name |-> n] : n \in Names}

NextNames ==
  \/ \E b \in NameCreateBodies : CreateQuizCheck(1, b)
  \/ \E r \in BagToSet(creating) : CreateQuizInsert(r)
  \/ \E q \in QuizIds, b \in RenameBodies : UpdateQuiz(1, q, b)

SpecNames == Init /\ [][NextNames]_vars

(***************************************************************************)
(* Quiz status: the lifecycle operations, any caller, any payload          *)
(***************************************************************************)
StatusCreateBodies ==
  {CreateBody("Alpha", <<2>>), [assigned_user_ids |-> <<2>>]}

StatusUpdateBodies ==
  Merge(Opt("status", {"LIVE", "DRAFT"}), Opt("expires_at", {MaxTime}))

LiveBodies ==
  Merge(Opt("status", {"LIVE", "DRAFT", "BOGUS"}),
        Opt("expires_at", {NULL, INVALID, MaxTime}))

NextStatus ==
  \/ \E c \in Callers, b \in StatusCreateBodies : CreateQuizCheck(c, b)
  \/ \E r \in BagToSet(creating) : CreateQuizInsert(r)
  \/ \E c \in Callers, q \in QuizIds, b \in StatusUpdateBodies :
       UpdateQuiz(c, q, b)
  \/ \E c \in Callers, q \in QuizIds : DeleteQuiz(c, q)
  \/ \E c \in Callers, q \in QuizIds, b \in LiveBodies : MakeQuizLive(c, q, b)

SpecStatus == Init /\ [][NextStatus]_vars

(***************************************************************************)
(* Nested update: patch, assignments and questions in one transaction      *)
(***************************************************************************)
QuestionLists ==
  { <<[id |-> 1, question_text |-> "Why?",
       options |-> <<[value |-> "z", is_correct |-> TRUE]>>]>>,
    <<[id |-> 1, options |-> <<[is_correct |-> TRUE]>>]>>,
    <<[id |-> MaxQuestions + 1, question_text |-> "Why?"]>>,
    <<[question_text |-> "More?", options |-> <<[value |-> "w"]>>],
      [id |-> MaxQuestions + 1]>>,
    <<[question_text |-> "More?", options |-> <<[value |-> "w"]>>]>> }

NestedBodies ==
  Merge(Merge(Opt("name", {"Beta"}),
              Opt("assigned_user_ids", {<<>>, <<3>>, <<4>>})),
        Opt("questions", QuestionLists))

NextUpdate ==
  \/ CreateQuizCheck(1, CreateBody("Alpha", <<2>>))
  \/ \E r \in BagToSet(creating) : CreateQuizInsert(r)
  \/ \E q \in QuizIds, b \in NestedBodies : UpdateQuiz(1, q, b)

SpecUpdate == Init /\ [][NextUpdate]_vars

(***************************************************************************)
(* Submissions: concurrent participants against the admin operations       *)
(***************************************************************************)
SubmitBodies ==
  {[answers |-> <<>>], [answers |-> <<[question_id |-> 1, option_id |-> 1]>>]}

NextSubmit ==
  \/ CreateQuizCheck(1, CreateBody("Alpha", <<2>>))
  \/ \E r \in BagToSet(creating) : CreateQuizInsert(r)
  \/ \E s \in {"LIVE", "DRAFT"} :
       MakeQuizLive(1, 1, [status |-> s, expires_at |-> MaxTime])
  \/ UpdateQuiz(1, 1, [assigned_user_ids |-> <<>>])
  \/ \E q \in QuizIds, b \in SubmitBodies : SubmitCheck(2, q, b)
  \/ \E r \in BagToSet(submitting) : SubmitScore(r)
  \/ \E r \in BagToSet(submitting) : SubmitCount(r)
  \/ \E r \in BagToSet(submitting) : SubmitInsert(r)
  \/ Tick

SpecSubmit == Init /\ [][NextSubmit]_vars

(***************************************************************************)
(* Scoring: quizzes with zero, one and several correct options a question  *)
(***************************************************************************)
ScoreQuestion(c1, c2) ==
  [question_text |-> "What?",
   options |-> <<[value |-> "x", is_correct |-> c1],
                 [value |-> "y", is_correct |-> c2]>>]

\* Two questions (ids 1, 2) with the options 1, 2 and 3, 4: one correct
\* option each, or two on the first question and none on the second.
ScoreCreateBodies ==
  {[name |-> "Alpha", assigned_user_ids |-> <<2>>,
    questions |-> <<ScoreQuestion(TRUE, FALSE), ScoreQuestion(FALSE, TRUE)>>],
   [name |-> "Alpha", assigned_user_ids |-> <<2>>,
    questions |-> <<ScoreQuestion(TRUE, TRUE), ScoreQuestion(FALSE, FALSE)>>]}

Answer(q, o) == [question_id |-> q, option_id |-> o]

ScoreSubmitBodies ==
  {[answers |-> <<Answer(1, 1), Answer(2, 3)>>],
   [answers |-> <<Answer(1, 1), Answer(1, 1)>>],
   [answers |-> <<Answer(1, 1), Answer(1, 2)>>],
   [answers |-> <<Answer(2, 3)>>]}

NextScore ==
  \/ \E b \in ScoreCreateBodies :
       quizzes = <<>> /\ creating = EmptyBag /\ CreateQuizCheck(1, b)
  \/ \E r \in BagToSet(creating) : CreateQuizInsert(r)
  \/ MakeQuizLive(1, 1, [status |-> "LIVE", expires_at |-> MaxTime])
  \/ \E b \in ScoreSubmitBodies :
       submitting = EmptyBag /\ SubmitCheck(2, 1, b)
  \/ \E r \in BagToSet(submitting) : SubmitScore(r)
  \/ \E r \in BagToSet(submitting) : SubmitCount(r)
  \/ \E r \in BagToSet(submitting) : SubmitInsert(r)

SpecScore == Init /\ [][NextScore]_vars

(***************************************************************************)
(* Submissions one after another: a user's request starts when none of     *)
(* that user's on the quiz is running                                      *)
(***************************************************************************)
NextSequential ==
  \/ CreateQuizCheck(1, CreateBody("Alpha", <<2, 3>>))
  \/ \E r \in BagToSet(creating) : CreateQuizInsert(r)
  \/ \E s \in {"LIVE", "DRAFT"} :
       MakeQuizLive(1, 1, [status |-> s, expires_at |-> MaxTime])
  \/ \E c \in {2, 3}, b \in SubmitBodies :
       /\ \A r \in BagToSet(submitting) : r.caller # c \/ r.quizId # 1
       /\ SubmitCheck(c, 1, b)
  \/ \E r \in BagToSet(submitting) : SubmitScore(r)
  \/ \E r \in BagToSet(submitting) : SubmitCount(r)
  \/ \E r \in BagToSet(submitting) : SubmitInsert(r)

SpecSequential == Init /\ [][NextSequential]_vars

(***************************************************************************)
(* Results: the participant reads next to every writer                     *)
(***************************************************************************)
NextResults ==
  \/ quizzes = <<>> /\ creating = EmptyBag
       /\ CreateQuizCheck(1, CreateBody("Alpha", <<2>>))
  \/ \E r \in BagToSet(creating) : CreateQuizInsert(r)
  \/ \E s \in {"LIVE", "DRAFT"} :
       MakeQuizLive(1, 1, [status |-> s, expires_at |-> MaxTime])
  \/ UpdateQuiz(1, 1, [assigned_user_ids |-> <<3>>])
  \/ DeleteQuiz(1, 1)
  \/ \E b \in SubmitBodies : SubmitCheck(2, 1, b)
  \/ \E r \in BagToSet(submitting) : SubmitScore(r)
  \/ \E r \in BagToSet(submitting) : SubmitCount(r)
  \/ \E r \in BagToSet(submitting) : SubmitInsert(r)
  \/ Tick
  \/ \E c \in {2, 3} : GetAllQuizzes(c)
  \/ \E c \in {2, 3} : GetQuizById(c, 1)
  \/ \E c \in {2, 3} : GetQuizResults(c)

SpecResults == Init /\ [][NextResults]_vars

(***************************************************************************)
(* Assigned quizzes: two quizzes of every status and their results         *)
(***************************************************************************)
AssignedCreateBodies ==
  {CreateBody("Alpha", <<2>>), CreateBody("Beta", <<2, 3>>)}

NextAssigned ==
  \/ \E b \in AssignedCreateBodies :
       creating = EmptyBag /\ CreateQuizCheck(1, b)
  \/ \E r \in BagToSet(creating) : CreateQuizInsert(r)
  \/ \E q \in QuizIds :
       MakeQuizLive(1, q, [status |-> "LIVE", expires_at |-> MaxTime])
  \/ \E q \in QuizIds : DeleteQuiz(1, q)
  \/ UpdateQuiz(1, 1, [assigned_user_ids |-> <<3>>])
  \/ submitting = EmptyBag /\ SubmitCheck(2, 1, [answers |-> <<Answer(1, 1)>>])
  \/ \E r \in BagToSet(submitting) : SubmitScore(r)
  \/ \E r \in BagToSet(submitting) : SubmitCount(r)
  \/ \E r \in BagToSet(submitting) : SubmitInsert(r)
  \/ Tick
  \/ \E c \in {2, 3} : GetQuizResults(c)

SpecAssigned == Init /\ [][NextAssigned]_vars

(***************************************************************************)
(* Reassignment: updateQuiz with assigned_user_ids on two quizzes           *)
(***************************************************************************)
\* Lists of user ids: empty, participants, a repeated id, the admin, and an
\* id that no user has.
AssigneeLists == {<<>>, <<3>>, <<2, 3>>, <<3, 3>>, <<1>>, <<4>>}

NextReassign ==
  \/ \E b \in AssignedCreateBodies :
       creating = EmptyBag /\ CreateQuizCheck(1, b)
  \/ \E r \in BagToSet(creating) : CreateQuizInsert(r)
  \/ \E q \in QuizIds, S \in AssigneeLists :
       UpdateQuiz(1, q, [assigned_user_ids |-> S])
  \/ \E q \in QuizIds : UpdateQuiz(1, q, [status |-> "LIVE"])

SpecReassign == Init /\ [][NextReassign]_vars

(***************************************************************************)
(* Question upsert: updateQuiz with questions on two quizzes                *)
(***************************************************************************)
\* Quizzes of one question with one option (question ids 1 and 2).
UpsertCreateBodies ==
  {[name |-> n, assigned_user_ids |-> <<2>>,
    questions |-> <<[question_text |-> "What?",
                     options |-> <<[value |-> "x", is_correct |-> TRUE]>>]>>]
     : n \in Names}

\* Question lists: options replaced by two, by none, kept; a question
\* added with and without options; an id given twice; an update next to a
\* creation.
UpsertLists ==
  { <<[id |-> 1, question_text |-> "Why?",
       options |-> <<[value |-> "z"], [value |-> "w", is_correct |-> TRUE]>>]>>,
    <<[id |-> 1, options |-> <<>>]>>,
    <<[id |-> 1, question_text |-> "Why?"]>>,
    <<[id |-> 2, options |-> <<[value |-> "z", is_correct |-> FALSE]>>]>>,
    <<[question_text |-> "More?", options |-> <<[value |-> "w"]>>]>>,
    <<[question_text |-> "More?"]>>,
    <<[id |-> 1, options |-> <<[value |-> "z"]>>],
      [id |-> 1, options |-> <<[value |-> "w", is_correct |-> TRUE]>>]>>,
    <<[id |-> 1, options |-> <<[value |-> "z"]>>],
      [question_text |-> "More?", options |-> <<[value |-> "w"]>>]>> }

NextUpsert ==
  \/ \E b \in UpsertCreateBodies :
       creating = EmptyBag /\ CreateQuizCheck(1, b)
  \/ \E r \in BagToSet(creating) : CreateQuizInsert(r)
  \/ \E q \in QuizIds, L \in UpsertLists : UpdateQuiz(1, q, [questions |-> L])

SpecUpsert == Init /\ [][NextUpsert]_vars

(***************************************************************************)
(* Assignees of a new quiz: participants, the admin, unknown ids            *)
(***************************************************************************)
InviteLists == {<<2>>, <<2, 3>>, <<1>>, <<2, 1>>, <<4>>, <<2, 2>>, <<>>}

NextInvite ==
  \/ \E c \in Callers, n \in Names, a \in InviteLists :
       CreateQuizCheck(c, CreateBody(n, a))
  \/ \E r \in BagToSet(creating) : CreateQuizInsert(r)

SpecInvite == Init /\ [][NextInvite]_vars

(***************************************************************************)
(* Live/draft requests with every value of the status enum                  *)
(***************************************************************************)
LiveStatusBodies ==
  {[status |-> st, expires_at |-> MaxTime] : st \in QuizStatus \cup {"BOGUS"}}

NextLive ==
  \/ \E n \in Names : creating = EmptyBag /\ CreateQuizCheck(1, CreateBody(n, <<2>>))
  \/ \E r \in BagToSet(creating) : CreateQuizInsert(r)
  \/ \E c \in Callers, q \in QuizIds, b \in LiveStatusBodies :
       MakeQuizLive(c, q, b)
  \/ \E q \in QuizIds : DeleteQuiz(1, q)

SpecLive == Init /\ [][NextLive]_vars

(***************************************************************************)
(* Reading quizzes whose options are flagged in different ways              *)
(***************************************************************************)
NextPeek ==
  \/ \E b \in ScoreCreateBodies :
       quizzes = <<>> /\ creating = EmptyBag /\ CreateQuizCheck(1, b)
  \/ \E r \in BagToSet(creating) : CreateQuizInsert(r)
  \/ \E s \in {"LIVE", "DRAFT"} :
       MakeQuizLive(1, 1, [status |-> s, expires_at |-> MaxTime])
  \/ \E a \in {<<2>>, <<1, 3>>} : UpdateQuiz(1, 1, [assigned_user_ids |-> a])
  \/ Tick
  \/ \E c \in DOMAIN users : GetAllQuizzes(c)
  \/ \E c \in DOMAIN users, q \in QuizIds : GetQuizById(c, q)

SpecPeek == Init /\ [][NextPeek]_vars

(***************************************************************************)
(* The participant endpoints called by administrators and participants      *)
(***************************************************************************)
NextRoles ==
  \/ \E n \in Names :
       quizzes = <<>> /\ creating = EmptyBag
       /\ CreateQuizCheck(1, [name |-> n, assigned_user_ids |-> <<2>>,
                              questions |-> <<Question1>>])
  \/ \E r \in BagToSet(creating) : CreateQuizInsert(r)
  \/ MakeQuizLive(1, 1, [status |-> "LIVE", expires_at |-> MaxTime])
  \/ \E a \in {<<1>>, <<1, 2>>} : UpdateQuiz(1, 1, [assigned_user_ids |-> a])
  \/ \E c \in {1, 2} : GetAllQuizzes(c)
  \/ \E c \in {1, 2} : GetQuizResults(c)
  \/ \E c \in {1, 2} :
       submitting = EmptyBag /\ SubmitCheck(c, 1, [answers |-> <<Answer(1, 1)>>])
  \/ \E r \in BagToSet(submitting) : SubmitScore(r)
  \/ \E r \in BagToSet(submitting) : SubmitCount(r)
  \/ \E r \in BagToSet(submitting) : SubmitInsert(r)

SpecRoles == Init /\ [][NextRoles]_vars

(***************************************************************************)
(* The lifecycle operations with every value of the status enum             *)
(***************************************************************************)
AnyStatusBodies == {[status |-> st] : st \in QuizStatus \cup {"BOGUS"}}

NextAnyStatus ==
  \/ \E n \in Names : creating = EmptyBag /\ CreateQuizCheck(1, CreateBody(n, <<2>>))
  \/ \E r \in BagToSet(creating) : CreateQuizInsert(r)
  \/ \E q \in QuizIds, b \in AnyStatusBodies : UpdateQuiz(1, q, b)
  \/ \E q \in QuizIds, b \in LiveStatusBodies : MakeQuizLive(1, q, b)
  \/ \E q \in QuizIds : DeleteQuiz(1, q)

SpecAnyStatus == Init /\ [][NextAnyStatus]_vars

(***************************************************************************)
(* Creating quizzes of one and two questions, valid or not, any caller      *)
(***************************************************************************)
NestedCreateBodies ==
  {CreateBody(n, a) : n \in Names, a \in {<<2>>, <<2, 3>>, <<4>>}}
  \cup ScoreCreateBodies
  \cup {[name |-> "Alpha", assigned_user_ids |-> <<2>>]}

NextCreate ==
  \/ \E c \in Callers, b \in NestedCreateBodies : CreateQuizCheck(c, b)
  \/ \E r \in BagToSet(creating) : CreateQuizInsert(r)

SpecCreate == Init /\ [][NextCreate]_vars

(***************************************************************************)
(* Answer lists that repeat a pair, on a quiz of one correct option         *)
(***************************************************************************)
RepeatSubmitBodies ==
  {[answers |-> <<Answer(1, 1)>>],
   [answers |-> <<Answer(1, 2)>>],
   [answers |-> <<Answer(1, 1), Answer(1, 1)>>],
   [answers |-> <<Answer(1, 2), Answer(1, 1), Answer(1, 1)>>]}

NextRepeat ==
  \/ \E n \in Names :
       quizzes = <<>> /\ creating = EmptyBag
       /\ CreateQuizCheck(1, CreateBody(n, <<2, 3>>))
  \/ \E r \in BagToSet(creating) : CreateQuizInsert(r)
  \/ MakeQuizLive(1, 1, [status |-> "LIVE", expires_at |-> MaxTime])
  \/ \E c \in {2, 3}, b \in RepeatSubmitBodies :
       submitting = EmptyBag /\ SubmitCheck(c, 1, b)
  \/ \E r \in BagToSet(submitting) : SubmitScore(r)
  \/ \E r \in BagToSet(submitting) : SubmitCount(r)
  \/ \E r \in BagToSet(submitting) : SubmitInsert(r)

SpecRepeat == Init /\ [][NextRepeat]_vars

(***************************************************************************)
(* Partial updates: every subset of the five fields of an update request    *)
(***************************************************************************)
PatchBodies ==
  Merge(Merge(Merge(Opt("name", {"Gamma"}), Opt("status", {"DRAFT"})),
              Merge(Opt("expires_at", {MaxTime + 1}),
                    Opt("assigned_user_ids", {<<3>>}))),
        Opt("questions", {<<[id |-> 1, question_text |-> "Why?",
                             options |-> <<[value |-> "z"]>>]>>}))

NextPatch ==
  \/ \E n \in Names :
       quizzes = <<>> /\ creating = EmptyBag
       /\ CreateQuizCheck(1, CreateBody(n, <<2>>))
  \/ \E r \in BagToSet(creating) : CreateQuizInsert(r)
  \/ MakeQuizLive(1, 1, [status |-> "LIVE", expires_at |-> MaxTime])
  \/ \E b \in PatchBodies : UpdateQuiz(1, 1, b)

SpecPatch == Init /\ [][NextPatch]_vars

(***************************************************************************)
(* Properties                                                              *)
(***************************************************************************)
\* Attempt numbers of the rows of quiz_scores for the pair (q, u).
AttemptNumbers(q, u) ==
  {quiz_scores[i].attempt_number :
     i \in {j \in DOMAIN quiz_scores :
              quiz_scores[j].quiz_id = q /\ quiz_scores[j].user_id = u}}

AttemptCount(q, u) ==
  Cardinality({j \in DOMAIN quiz_scores :
                 quiz_scores[j].quiz_id = q /\ quiz_scores[j].user_id = u})

\* C1: for every (quiz_id, user_id), under any interleaving of the count and
\* insert steps of concurrent submissions, the n Attempts stored for the pair
\* carry the attempt numbers 1..n, with no duplicate and no gap.
C1_AttemptNumbersContiguous ==
  \A q \in QuizIds, u \in DOMAIN users :
    AttemptNumbers(q, u) = 1 .. AttemptCount(q, u)

\* C2: an updateQuiz call that fails leaves the quiz rows, the assignments,
\* the questions and the options as they were before the call.
C2_FailedUpdateChangesNothing ==
  [][(last'.op = "updateQuiz" /\ last'.code # 200)
       => /\ quizzes' = quizzes
          /\ quiz_assignments' = quiz_assignments
          /\ questions' = questions
          /\ options' = options]_vars

\* C2 witness: an update that patched the name and replaced the assignments
\* failed on a question update or an option insert, and both would have
\* changed the quiz.
C2_Witness ==
  /\ last.op = "updateQuiz" /\ last.code = 500
  /\ last.message \in {"questions.update", "options.createMany"}
  /\ Has(last.body, "name") /\ Has(last.body, "assigned_user_ids")
  /\ quizzes[last.quizId].name # last.body.name
  /\ \E i \in DOMAIN quiz_assignments :
       /\ quiz_assignments[i].quiz_id = last.quizId
       /\ quiz_assignments[i].user_id \notin Range(last.body.assigned_user_ids)

\* A createQuiz request that only the held name stops: an admin's, valid,
\* with participant assignees.
NameIsOnlyObstacle(r) ==
  /\ r.op = "createQuiz"
  /\ users[r.caller] = "ADMIN"
  /\ createQuizSchema(r.body)
  /\ \A i \in DOMAIN r.body.assigned_user_ids :
       /\ r.body.assigned_user_ids[i] \in DOMAIN users
       /\ users[r.body.assigned_user_ids[i]] = "USER"

\* C3: of two createQuiz calls with the same name, sequential or interleaved,
\* the one that does not succeed fails with the duplicate-name (Conflict)
\* error.
C3_LoserGetsConflict ==
  (NameIsOnlyObstacle(last) /\ last.code # 201)
    => last.message = "Quiz with name already exists"

\* C4: in every reachable state, no two quiz rows have the same name.
C4_NamesUnique ==
  \A i, j \in DOMAIN quizzes : i # j => quizzes[i].name # quizzes[j].name

\* C4 witness: two creates of one name were interleaved and the insert of the
\* second was refused, next to a stored quiz of that name.
C4_Witness ==
  /\ last.op = "createQuiz" /\ last.code = 500
  /\ \E i \in DOMAIN quizzes : quizzes[i].name = last.body.name

\* C5: once a quiz's status is DELETED it stays DELETED.
C5_DeletedIsTerminal ==
  [][\A q \in DOMAIN quizzes :
       quizzes[q].status = "DELETED" => quizzes'[q].status = "DELETED"]_vars

\* A request that asks for the status s.
AsksStatus(r, s) ==
  /\ r.op \in {"makeQuizLive", "updateQuiz"}
  /\ Has(r.body, "status") /\ r.body.status = s

\* C6: makeQuizLive or updateQuiz asking for LIVE without an expires_at is
\* rejected and leaves the quiz rows unchanged.
C6_LiveNeedsExpiry ==
  [][(AsksStatus(last', "LIVE") /\ ~Has(last'.body, "expires_at"))
       => (last'.code # 200 /\ quizzes' = quizzes)]_vars

\* C7: after a successful makeQuizLive or updateQuiz asking for DRAFT, the
\* quiz has expires_at = null.
C7_DraftClearsExpiry ==
  (AsksStatus(last, "DRAFT") /\ last.code = 200)
    => quizzes[last.quizId].expires_at = NULL

\* C8: in every reachable state a quiz with a non-null expires_at is LIVE.
C8_ExpiryOnlyWhileLive ==
  \A q \in DOMAIN quizzes :
    quizzes[q].expires_at # NULL => quizzes[q].status = "LIVE"

\* C9: createQuiz, updateQuiz, deleteQuiz and makeQuizLive called by a
\* non-admin, with any payload, answer with the authorization error and
\* change no stored record.
C9_NonAdminIsRefused ==
  [][(/\ last'.op \in {"createQuiz", "updateQuiz", "deleteQuiz", "makeQuizLive"}
      /\ users[last'.caller] # "ADMIN")
       => (last'.code = 403 /\ records' = records)]_vars

\* The eligibility of user u for quiz q as the claim states it.
C10_Eligibility(u, q) ==
  /\ q \in DOMAIN quizzes
  /\ quizzes[q].status = "LIVE"
  /\ \E i \in DOMAIN quiz_assignments :
       quiz_assignments[i] = [quiz_id |-> q, user_id |-> u]
  /\ (quizzes[q].expires_at = NULL \/ quizzes[q].expires_at > now)

\* C10: a submission passes the eligibility check only when the quiz exists,
\* is LIVE, is assigned to the caller and is unexpired, and the answer list
\* is non-empty; a rejected submission changes no stored record.
C10_AcceptedOnlyIfEligible ==
  [][/\ \A r \in BagToSet(submitting') :
          (r.pc = "score" /\ CopiesIn(r, submitting') > CopiesIn(r, submitting))
            => /\ C10_Eligibility(r.caller, r.quizId)
               /\ Has(r.body, "answers") /\ Len(r.body.answers) > 0
     /\ (last'.op = "submitQuizAnswers" /\ last'.code # 200)
          => (records' = records /\ submitting' = submitting)]_vars

\* C10 witness: after an accepted submission was stored, a submission by the
\* assigned user on the LIVE quiz is rejected because the quiz has expired.
C10_Witness ==
  /\ Len(quiz_scores) >= 1
  /\ last.op = "submitQuizAnswers" /\ last.code = 403
  /\ last.quizId \in DOMAIN quizzes
  /\ quizzes[last.quizId].status = "LIVE"
  /\ quizzes[last.quizId].expires_at # NULL
  /\ quizzes[last.quizId].expires_at <= now
  /\ \E i \in DOMAIN quiz_assignments :
       quiz_assignments[i] = [quiz_id |-> last.quizId, user_id |-> last.caller]

\* The entries of an answer list, one by one, that name a correct option of
\* the quiz q.
RECURSIVE MatchingEntries(_, _)
MatchingEntries(answers, q) ==
  IF answers = <<>> THEN 0
  ELSE (IF \E o \in options :
             /\ o.is_correct
             /\ questions[o.question_id].quiz_id = q
             /\ o.question_id = Head(answers).question_id
             /\ o.id = Head(answers).option_id
          THEN 1 ELSE 0) + MatchingEntries(Tail(answers), q)

\* The submissions that the step scores: they leave the scoring loop with
\* their score and total.
Scored(r) ==
  /\ r.pc = "count"
  /\ CopiesIn(r, submitting') > CopiesIn(r, submitting)

\* C11: the score of a submission is the number of entries of its answer
\* list, duplicates counted each time, that name a correct option of the quiz
\* by question_id and option id.
C11_ScoreCountsEntries ==
  [][\A r \in BagToSet(submitting') :
       Scored(r) => r.score = MatchingEntries(r.body.answers, r.quizId)]_vars

\* C11 witness: the same correct pair submitted twice was scored 2, and a
\* submission of one right and one wrong pair was stored with score 1 of 2.
C11_Witness ==
  /\ \E r \in BagToSet(submitting) :
       /\ r.pc = "count" /\ r.score = 2
       /\ r.body.answers = <<Answer(1, 1), Answer(1, 1)>>
  /\ \E i \in DOMAIN quiz_scores :
       /\ quiz_scores[i].score_value_obtained = 1
       /\ quiz_scores[i].score_total = 2

\* The number of options of the quiz q that are marked correct.
CorrectOptionRows(q) ==
  Cardinality({o \in options :
                 o.is_correct /\ questions[o.question_id].quiz_id = q})

\* The number of questions of the quiz q with at least one correct option.
QuestionsWithCorrectOption(q) ==
  Cardinality({i \in DOMAIN questions :
                 /\ questions[i].quiz_id = q
                 /\ \E o \in options : o.is_correct /\ o.question_id = i})

\* C12 as stated: the total of a submission is the number of the quiz's
\* questions that have at least one correct option.
C12_TotalIsQuestionsWithCorrectOption ==
  [][/\ \A r \in BagToSet(submitting') :
          Scored(r) => r.total = QuestionsWithCorrectOption(r.quizId)
     /\ (last'.op = "submitQuizAnswers" /\ last'.code = 200)
          => /\ last'.total = QuestionsWithCorrectOption(last'.quizId)
             /\ quiz_scores'[Len(quiz_scores')].score_total = last'.total]_vars

\* C12, amended: the total returned and stored by submitQuizAnswers is the
\* number of the quiz's options marked correct, so a question with several
\* correct options adds one for each of them and a question with none adds
\* nothing.
C12_TotalIsCorrectOptionRows ==
  [][/\ \A r \in BagToSet(submitting') :
          Scored(r) => r.total = CorrectOptionRows(r.quizId)
     /\ (last'.op = "submitQuizAnswers" /\ last'.code = 200)
          => /\ last'.total = CorrectOptionRows(last'.quizId)
             /\ quiz_scores'[Len(quiz_scores')].score_total = last'.total]_vars

\* C12 witness: a submission on a quiz whose first question has two correct
\* options and whose second has none was answered and stored with total 2.
C12_Witness ==
  /\ last.op = "submitQuizAnswers" /\ last.code = 200 /\ last.total = 2
  /\ quiz_scores[Len(quiz_scores)].score_total = 2
  /\ QuestionsWithCorrectOption(last.quizId) = 1
  /\ \E i \in DOMAIN questions :
       /\ questions[i].quiz_id = last.quizId
       /\ ~\E o \in options : o.is_correct /\ o.question_id = i

\* C13: a successful submitQuizAnswers call appends exactly one Attempt, for
\* the quiz and the caller, with the score and the total it returns, and
\* changes no other stored record.
C13_SuccessAppendsOneAttempt ==
  [][(last'.op = "submitQuizAnswers" /\ last'.code = 200)
       => /\ Len(quiz_scores') = Len(quiz_scores) + 1
          /\ SubSeq(quiz_scores', 1, Len(quiz_scores)) = quiz_scores
          /\ LET row == quiz_scores'[Len(quiz_scores')]
             IN /\ row.quiz_id = last'.quizId
                /\ row.user_id = last'.caller
                /\ row.score_value_obtained = last'.score
                /\ row.score_total = last'.total
          /\ UNCHANGED <<quizzes, questions, options, quiz_assignments>>]_vars

\* C13 witness: a second Attempt was appended after the first, with a score
\* below its total.
C13_Witness ==
  /\ last.op = "submitQuizAnswers" /\ last.code = 200
  /\ Len(quiz_scores) >= 2
  /\ last.score < last.total
  /\ quiz_scores[Len(quiz_scores)].score_value_obtained = last.score

\* C14: no step modifies or deletes an Attempt once it is written; every
\* stored Attempt keeps its place and its field values.
C14_AttemptsAppendOnly ==
  [][/\ Len(quiz_scores') >= Len(quiz_scores)
     /\ \A i \in DOMAIN quiz_scores : quiz_scores'[i] = quiz_scores[i]]_vars

\* C14 witness: after two Attempts were written, the quiz was given to
\* another user and deleted, and the reads ran, with both Attempts in place.
C14_Witness ==
  /\ Len(quiz_scores) = 2
  /\ quizzes[1].status = "DELETED"
  /\ ~Assigned(2, 1)
  /\ last.op = "getQuizResults"

\* C15: when submissions do not overlap, every Attempt has attempt_number 1 +
\* the number of Attempts of its (quiz_id, user_id) stored before it, so the
\* numbers of a pair are 1..n in the order of submission.
C15_SequentialAttemptNumbers ==
  \A i \in DOMAIN quiz_scores :
    quiz_scores[i].attempt_number =
      1 + Cardinality({j \in 1 .. (i - 1) :
                         /\ quiz_scores[j].quiz_id = quiz_scores[i].quiz_id
                         /\ quiz_scores[j].user_id = quiz_scores[i].user_id})

\* C15 witness: a user's second submission was stored after the first.
C15_Witness ==
  /\ Len(quiz_scores) = 2
  /\ quiz_scores[1].user_id = quiz_scores[2].user_id
  /\ quiz_scores[1].quiz_id = quiz_scores[2].quiz_id
  /\ last.op = "submitQuizAnswers" /\ last.code = 200

\* A quiz stored as LIVE whose expires_at has passed.
ExpiredLive(q) ==
  /\ q \in DOMAIN quizzes
  /\ quizzes[q].status = "LIVE"
  /\ quizzes[q].expires_at # NULL
  /\ quizzes[q].expires_at <= now

\* The operations of the administrator.
AdminOps == {"createQuiz", "updateQuiz", "deleteQuiz", "makeQuizLive"}

\* The submissions that the step lets past the eligibility check.
Accepted(r) ==
  /\ r.pc = "score"
  /\ CopiesIn(r, submitting') > CopiesIn(r, submitting)

\* The positions of the rows of a results list that are about the quiz q.
RowsOf(data, q) == {k \in DOMAIN data : data[k].id = q}

\* The Attempts of the user u on the quiz q, by their place in the ledger.
AttemptsOf(u, q) ==
  {i \in DOMAIN quiz_scores :
     quiz_scores[i].quiz_id = q /\ quiz_scores[i].user_id = u}

\* The most recently appended Attempt of the user u on the quiz q.
LastAttempt(u, q) ==
  CHOOSE i \in AttemptsOf(u, q) : \A j \in AttemptsOf(u, q) : j <= i

\* The results row reports the Attempt at place i of the ledger.
Reports(row, i) ==
  /\ row.attempted
  /\ row.latest_score = Some(quiz_scores[i].score_value_obtained)
  /\ row.score_total = Some(quiz_scores[i].score_total)
  /\ row.attempt_number = Some(quiz_scores[i].attempt_number)
  /\ row.completed_at = Some(quiz_scores[i].completed_at)

\* C16: a quiz stored as LIVE whose expires_at is in the past is not listed
\* by getAllQuizzes, is refused by getQuizById and by submitQuizAnswers, stays
\* LIVE in storage, and is in the getQuizResults of each assigned user with
\* that user's last Attempt if there is one.
C16_ExpiredLiveQuiz ==
  [][/\ \A q \in DOMAIN quizzes :
          (ExpiredLive(q) /\ last'.op \notin AdminOps)
            => quizzes'[q].status = "LIVE"
     /\ last'.op = "getAllQuizzes"
          => \A k \in DOMAIN last'.data : ~ExpiredLive(last'.data[k].id)
     /\ (last'.op = "getQuizById" /\ ExpiredLive(last'.quizId))
          => last'.code = 404
     /\ \A r \in BagToSet(submitting') :
          Accepted(r) => ~ExpiredLive(r.quizId)
     /\ last'.op = "getQuizResults"
          => \A q \in DOMAIN quizzes :
               (ExpiredLive(q) /\ Assigned(last'.caller, q))
                 => /\ Cardinality(RowsOf(last'.data, q)) = 1
                    /\ \A k \in RowsOf(last'.data, q) :
                         IF AttemptsOf(last'.caller, q) = {}
                           THEN ~last'.data[k].attempted
                         ELSE Reports(last'.data[k],
                                      LastAttempt(last'.caller, q))]_vars

\* C17 as stated: a quiz with status DELETED stays in storage, is never
\* returned by getAllQuizzes, getQuizById or getQuizResults and is never
\* accepted by submitQuizAnswers.
C17_DeletedIsExcludedEverywhere ==
  [][/\ Len(quizzes') >= Len(quizzes)
     /\ last'.op \in {"getAllQuizzes", "getQuizResults"}
          => \A k \in DOMAIN last'.data :
               quizzes[last'.data[k].id].status # "DELETED"
     /\ (/\ last'.op = "getQuizById" /\ last'.quizId \in DOMAIN quizzes
         /\ quizzes[last'.quizId].status = "DELETED")
          => last'.code = 404
     /\ \A r \in BagToSet(submitting') :
          Accepted(r) => quizzes[r.quizId].status # "DELETED"]_vars

\* C17, amended: a quiz with status DELETED stays in storage, is never
\* returned by getAllQuizzes or getQuizById and is never accepted by
\* submitQuizAnswers, and getQuizResults still returns it to every user it
\* is assigned to.
C17_DeletedIsExcludedButInResults ==
  [][/\ Len(quizzes') >= Len(quizzes)
     /\ last'.op = "getAllQuizzes"
          => \A k \in DOMAIN last'.data :
               quizzes[last'.data[k].id].status # "DELETED"
     /\ (/\ last'.op = "getQuizById" /\ last'.quizId \in DOMAIN quizzes
         /\ quizzes[last'.quizId].status = "DELETED")
          => last'.code = 404
     /\ \A r \in BagToSet(submitting') :
          Accepted(r) => quizzes[r.quizId].status # "DELETED"
     /\ last'.op = "getQuizResults"
          => \A q \in DOMAIN quizzes :
               (quizzes[q].status = "DELETED" /\ Assigned(last'.caller, q))
                 => \E k \in DOMAIN last'.data :
                      /\ last'.data[k].id = q
                      /\ last'.data[k].status = "DELETED"]_vars

\* C17 witness: the results of a user who had submitted show the quiz that
\* was deleted since, while it was still within its expires_at.
C17_Witness ==
  /\ last.op = "getQuizResults"
  /\ \E k \in DOMAIN last.data :
       /\ last.data[k].status = "DELETED"
       /\ last.data[k].attempted
       /\ quizzes[last.data[k].id].expires_at > now

\* C18: getQuizResults returns exactly one row for each quiz the caller is
\* assigned to, whatever the status of the quiz, and no row for any other
\* quiz.
C18_OneRowPerAssignedQuiz ==
  [][last'.op = "getQuizResults"
       => /\ \A k \in DOMAIN last'.data : last'.data[k].id \in DOMAIN quizzes
          /\ \A q \in DOMAIN quizzes :
               Cardinality(RowsOf(last'.data, q)) =
                 IF \E i \in DOMAIN quiz_assignments :
                      quiz_assignments[i] =
                        [quiz_id |-> q, user_id |-> last'.caller]
                   THEN 1 ELSE 0]_vars

\* C18 witness: of two quizzes, the results of a user show the one that is
\* assigned to the user and DELETED, and not the one that was taken from the
\* user.
C18_Witness ==
  /\ last.op = "getQuizResults"
  /\ Len(quizzes) = 2
  /\ Len(last.data) = 1
  /\ last.data[1].status = "DELETED"
  /\ \E q \in DOMAIN quizzes :
       /\ ~Assigned(last.caller, q)
       /\ \E u \in DOMAIN users : Assigned(u, q)

\* The rows of the results that are about a quiz without an Attempt of the
\* caller.
RowsWithoutAttempt ==
  {k \in DOMAIN last.data : AttemptsOf(last.caller, last.data[k].id) = {}}

\* C19 as stated: the results row of a quiz on which the user has no Attempt
\* has attempted = false and null as obtained score, total, attempt number
\* and completion time.
C19_NoAttemptAllNull ==
  last.op = "getQuizResults"
    => \A k \in RowsWithoutAttempt :
         /\ last.data[k].attempted = FALSE
         /\ last.data[k].latest_score = null
         /\ last.data[k].score_total = null
         /\ last.data[k].attempt_number = null
         /\ last.data[k].completed_at = null

\* C19, amended: the results row of a quiz on which the user has no Attempt
\* has attempted = false, null as obtained score, attempt number and
\* completion time, and the number of questions of the quiz as total.
C19_NoAttemptTotalIsQuestionCount ==
  last.op = "getQuizResults"
    => \A k \in RowsWithoutAttempt :
         /\ last.data[k].attempted = FALSE
         /\ last.data[k].latest_score = null
         /\ last.data[k].score_total =
              Some(Cardinality({i \in DOMAIN questions :
                                  questions[i].quiz_id = last.data[k].id}))
         /\ last.data[k].attempt_number = null
         /\ last.data[k].completed_at = null

\* C19 witness: the results show a quiz the user has attempted next to one
\* the user has not, whose total is its one question.
C19_Witness ==
  /\ last.op = "getQuizResults"
  /\ \E k \in RowsWithoutAttempt : last.data[k].score_total = Some(1)
  /\ \E k \in DOMAIN last.data : last.data[k].attempted

\* C20: after successful submissions of a user on a quiz, concurrent ones
\* included, the Attempt with the greatest attempt_number is unique and is
\* the most recently appended one, and the results row of the quiz reports
\* its obtained score, total, attempt number and completion time.
C20_ResultsReportLastAttempt ==
  last.op = "getQuizResults"
    => \A k \in DOMAIN last.data :
         AttemptsOf(last.caller, last.data[k].id) # {}
           => /\ Reports(last.data[k], LastAttempt(last.caller, last.data[k].id))
              /\ \A i \in AttemptsOf(last.caller, last.data[k].id) :
                   i # LastAttempt(last.caller, last.data[k].id)
                     => quiz_scores[i].attempt_number <
                          quiz_scores[LastAttempt(last.caller,
                                                  last.data[k].id)].attempt_number

\* C21: getQuizResults changes no stored record, and a call by the user of
\* the call just before it, with nothing in between, returns the same rows
\* with the same values in the same order.
C21_ResultsPureAndRepeatable ==
  [][/\ last'.op = "getQuizResults"
          => (records' = records /\ UNCHANGED <<creating, submitting>>)
     /\ (/\ last.op = "getQuizResults" /\ last'.op = "getQuizResults"
         /\ last'.caller = last.caller)
          => last'.data = last.data]_vars

\* The users assigned to the quiz q in the assignment table A.
AssignedUsers(A, q) == {A[i].user_id : i \in {j \in DOMAIN A : A[j].quiz_id = q}}

\* C22: after a successful updateQuiz on a quiz with the list S as
\* assigned_user_ids, the users assigned to the quiz are exactly the ids of
\* S: prior assignments outside S are gone, every id of S is assigned, and
\* an empty S leaves no assignment.
C22_AssignmentsReplaced ==
  [][(/\ last'.op = "updateQuiz" /\ last'.code = 200
      /\ Has(last'.body, "assigned_user_ids"))
       => AssignedUsers(quiz_assignments', last'.quizId)
            = Range(last'.body.assigned_user_ids)]_vars

\* C22 witness: a quiz created with the users 2 and 3 was left with user 3
\* alone, next to another quiz that kept its assignment.
C22_Witness ==
  /\ last.op = "updateQuiz" /\ last.code = 200
  /\ last.body = [assigned_user_ids |-> <<3>>]
  /\ quizzes[last.quizId].name = "Beta"
  /\ AssignedUsers(quiz_assignments, last.quizId) = {3}
  /\ \E q \in DOMAIN quizzes :
       q # last.quizId /\ AssignedUsers(quiz_assignments, q) = {2}

\* The options of the question qid in the option table O, in id order, by
\* value and is_correct.
OptionSeq(O, qid) ==
  LET ids == SetToSeq({o.id : o \in {x \in O : x.question_id = qid}})
  IN [k \in DOMAIN ids |->
        LET o == CHOOSE x \in O : x.id = ids[k]
        IN [value |-> o.value, is_correct |-> o.is_correct]]

\* The options a request supplies, is_correct defaulting to false.
Supplied(opts) ==
  [k \in DOMAIN opts |->
     [value |-> opts[k].value,
      is_correct |-> IF Has(opts[k], "is_correct") THEN opts[k].is_correct
                     ELSE FALSE]]

\* A successful updateQuiz with a questions list answers the step.
UpsertDone ==
  /\ last'.op = "updateQuiz" /\ last'.code = 200
  /\ Has(last'.body, "questions")

\* The entries of the list L that name the question i, and those of them
\* that carry options.
EntriesOf(L, i) == {k \in DOMAIN L : Has(L[k], "id") /\ L[k].id = i}
EntriesWithOptions(L, i) == {k \in EntriesOf(L, i) : Has(L[k], "options")}

\* C23: after a successful updateQuiz that supplies an existing question id
\* with an options list, the options of the question are exactly the supplied
\* ones (the last list, when the id is supplied more than once) and none of
\* the previous option rows remains; a question supplied with an id and
\* without options keeps its option rows.
C23_OptionsReplaced ==
  [][UpsertDone =>
       LET L == last'.body.questions
       IN \A i \in DOMAIN questions :
            EntriesOf(L, i) # {} =>
              IF EntriesWithOptions(L, i) = {}
                THEN {o \in options' : o.question_id = i}
                       = {o \in options : o.question_id = i}
              ELSE LET k == CHOOSE x \in EntriesWithOptions(L, i) :
                               \A y \in EntriesWithOptions(L, i) : y <= x
                   IN /\ OptionSeq(options', i) = Supplied(L[k].options)
                      /\ \A o \in options' : \A x \in options :
                           (o.question_id = i /\ x.question_id = i)
                             => o.id # x.id]_vars

\* C23 witness: the one option of question 1 was replaced by two, the first
\* with is_correct left out.
C23_Witness ==
  /\ last.op = "updateQuiz" /\ last.code = 200
  /\ Has(last.body, "questions")
  /\ OptionSeq(options, 1) = <<[value |-> "z", is_correct |-> FALSE],
                               [value |-> "w", is_correct |-> TRUE]>>
  /\ Len(quizzes) = 2

\* The places in the list L of the entries without an id, in order.
IdLess(L) == SetToSeq({k \in DOMAIN L : ~Has(L[k], "id")})

\* C24: in a successful updateQuiz on a quiz, each entry without an id
\* creates one new question of the quiz with the supplied options, each
\* entry with an id updates that question in place, questions that are not
\* mentioned are unchanged, and the question count of the quiz grows by the
\* number of entries without an id.
C24_QuestionUpsert ==
  [][UpsertDone =>
       LET L == last'.body.questions
           Q == last'.quizId
           new == IdLess(L)
           mine(qs) == {i \in DOMAIN qs : qs[i].quiz_id = Q}
       IN /\ Len(questions') = Len(questions) + Len(new)
          /\ Cardinality(mine(questions'))
               = Cardinality(mine(questions)) + Len(new)
          /\ \A j \in DOMAIN new :
               LET e == L[new[j]]
                   i == Len(questions) + j
               IN /\ questions'[i] = [quiz_id |-> Q,
                                      question_text |-> e.question_text]
                  /\ OptionSeq(options', i) =
                       Supplied(IF Has(e, "options") THEN e.options ELSE <<>>)
          /\ \A i \in DOMAIN questions :
               /\ questions'[i].quiz_id = questions[i].quiz_id
               /\ EntriesOf(L, i) = {}
                    => /\ questions'[i] = questions[i]
                       /\ {o \in options' : o.question_id = i}
                            = {o \in options : o.question_id = i}
               /\ \A k \in EntriesOf(L, i) :
                    (Truthy(L[k], "question_text")
                       /\ \A y \in EntriesOf(L, i) : y <= k)
                      => questions'[i].question_text = L[k].question_text]_vars

\* C24 witness: one call updated the options of question 1 and added a
\* third question to the quiz, next to the question of another quiz.
C24_Witness ==
  /\ last.op = "updateQuiz" /\ last.code = 200
  /\ Has(last.body, "questions") /\ Len(last.body.questions) = 2
  /\ Len(questions) = 3
  /\ questions[3] = [quiz_id |-> last.quizId, question_text |-> "More?"]
  /\ OptionSeq(options, 3) = <<[value |-> "w", is_correct |-> FALSE]>>
  /\ \E i \in DOMAIN questions : questions[i].quiz_id # last.quizId

\* Some id of the list is not the id of a user with the USER role.
NotAllParticipants(ids) ==
  \E i \in DOMAIN ids :
    ids[i] \notin DOMAIN users \/ users[ids[i]] # "USER"

\* C25: createQuiz succeeds only if every id of assigned_user_ids is the id
\* of an existing user with the USER role; with an unknown id or the id of an
\* ADMIN the call of an admin is rejected with a validation error (400), and
\* no quiz, question, option or assignment is created.
C25_AssigneesAreParticipants ==
  [][(/\ last'.op = "createQuiz" /\ Has(last'.body, "assigned_user_ids")
      /\ NotAllParticipants(last'.body.assigned_user_ids))
       => /\ last'.code # 201
          /\ users[last'.caller] = "ADMIN" => last'.code = 400
          /\ records' = records
          /\ creating' = creating]_vars

\* C25 witness: with a quiz stored and a creation pending, an admin's
\* request that lists a participant and an admin was rejected.
C25_Witness ==
  /\ last.op = "createQuiz" /\ last.code = 400
  /\ users[last.caller] = "ADMIN"
  /\ last.body.assigned_user_ids = <<2, 1>>
  /\ Len(quizzes) = 1 /\ creating # EmptyBag
  /\ ~existingQuiz(last.body.name)

\* The request passes the checks of its payload and names no stored quiz.
AsksMissingQuiz(r) ==
  /\ r.op \in {"updateQuiz", "deleteQuiz", "makeQuizLive"}
  /\ users[r.caller] = "ADMIN"
  /\ r.quizId \notin DOMAIN quizzes
  /\ r.op = "makeQuizLive"
       => /\ TruthyDate(r.body) /\ ~IsNaNDate(NewDate(r.body.expires_at))
          /\ Truthy(r.body, "status")

\* C26: updateQuiz, deleteQuiz and makeQuizLive called by an admin with the
\* id of no quiz fail with the not-found outcome (404), which is not the
\* storage failure (500), and change no stored record.
C26_MissingQuizIsNotFound ==
  [][AsksMissingQuiz(last') => (last'.code = 404 /\ records' = records)]_vars

\* C29: after a successful makeQuizLive the status of the quiz is LIVE or
\* DRAFT, and a request with any other status value is rejected and leaves
\* the quiz as it was.
C29_LiveOrDraftOnly ==
  [][last'.op = "makeQuizLive"
       => /\ last'.code = 200
               => quizzes'[last'.quizId].status \in {"LIVE", "DRAFT"}
          /\ (Has(last'.body, "status")
                /\ last'.body.status \notin {"LIVE", "DRAFT"})
               => (last'.code # 200 /\ quizzes' = quizzes)]_vars

\* C27: a submission whose attempt number is taken, at the time of its
\* insert, by an Attempt of the same (quiz_id, user_id) is retried with the
\* number computed afresh, so the Attempt it stores carries the fresh number
\* and not the one that collides.
C27_CollisionIsRetried ==
  [][(last'.op = "submitQuizAnswers" /\ last'.code = 200)
       => \E r \in BagToSet(submitting) :
            /\ r.pc = "insert"
            /\ r.caller = last'.caller /\ r.quizId = last'.quizId
            /\ CopiesIn(r, submitting') < CopiesIn(r, submitting)
            /\ quiz_scores'[Len(quiz_scores')].attempt_number =
                 IF r.attemptNumber \in AttemptNumbers(r.quizId, r.caller)
                   THEN attemptNumber(quiz_scores, r.quizId, r.caller)
                 ELSE r.attemptNumber]_vars

\* The option tables that differ from O in is_correct flags only.
FlagVariants(O) ==
  {{[o EXCEPT !.is_correct = f[o.id]] : o \in O} :
     f \in [{o.id : o \in O} -> BOOLEAN]}

\* C28: the output of getAllQuizzes and of getQuizById is the output the
\* operation gives the caller on every store that differs from the present
\* one in the is_correct flags of options only.
C28_ReadsHideCorrectAnswers ==
  [][/\ last'.op = "getAllQuizzes"
          => \A O \in FlagVariants(options) :
               last' = AllQuizzesResponse(O, last'.caller)
     /\ last'.op = "getQuizById"
          => \A O \in FlagVariants(options) :
               last' = QuizByIdResponse(O, last'.caller, last'.quizId)]_vars

\* C28 witness: a participant was given a quiz with its two questions and
\* their four options, of which some are correct and some are not.
C28_Witness ==
  /\ last.op = "getQuizById" /\ last.code = 200
  /\ Len(last.data.questions) = 2
  /\ \A k \in DOMAIN last.data.questions :
       Len(last.data.questions[k].options) = 2
  /\ \E o \in options : o.is_correct
  /\ \E o \in options : ~o.is_correct

\* C30: a caller with role ADMIN never gets a successful result from
\* getAllQuizzes, getQuizResults or submitQuizAnswers.
C30_ParticipantEndpointsRefuseAdmins ==
  [][(/\ last'.op \in {"getAllQuizzes", "getQuizResults", "submitQuizAnswers"}
      /\ users[last'.caller] = "ADMIN")
       => last'.code # 200]_vars

\* C31: an admin's makeQuizLive with status LIVE and an explicit null
\* expires_at on a stored quiz succeeds and stores the quiz as LIVE with
\* expires_at null.
C31_LiveWithoutExpiry ==
  [][(/\ last'.op = "makeQuizLive" /\ users[last'.caller] = "ADMIN"
      /\ last'.quizId \in DOMAIN quizzes
      /\ Has(last'.body, "status") /\ last'.body.status = "LIVE"
      /\ Has(last'.body, "expires_at") /\ last'.body.expires_at = NULL)
       => /\ last'.code = 200
          /\ quizzes'[last'.quizId].status = "LIVE"
          /\ quizzes'[last'.quizId].expires_at = NULL]_vars

\* C32: no stored quiz has status EXPIRED.
C32_ExpiredIsNeverStored ==
  \A i \in DOMAIN quizzes : quizzes[i].status # "EXPIRED"

\* The quiz of the answered createQuiz is stored after the rows there were,
\* with every supplied question, the supplied options of each and one
\* assignment per listed user.
StoredWhole ==
  LET q == last'.quizId
      b == last'.body
      n == Len(questions)
  IN /\ quizzes' = Append(quizzes, quizzes'[q]) /\ quizzes'[q].name = b.name
     /\ Len(questions') = n + Len(b.questions)
     /\ SubSeq(questions', 1, n) = questions
     /\ \A k \in DOMAIN b.questions :
          /\ questions'[n + k] =
               [quiz_id |-> q, question_text |-> b.questions[k].question_text]
          /\ OptionSeq(options', n + k) = Supplied(b.questions[k].options)
     /\ {o \in options' : o.question_id <= n} = options
     /\ Len(quiz_assignments')
          = Len(quiz_assignments) + Len(b.assigned_user_ids)
     /\ SubSeq(quiz_assignments', 1, Len(quiz_assignments)) = quiz_assignments
     /\ AssignedUsers(quiz_assignments', q) = Range(b.assigned_user_ids)

\* C33: a createQuiz answered 201 has stored the quiz together with all the
\* supplied questions, their options and all assignments; a createQuiz
\* answered otherwise, and a createQuiz that has not answered yet, changes no
\* quiz, question, option or assignment row.
C33_CreateIsAllOrNothing ==
  [][/\ last'.op = "createQuiz"
          => IF last'.code = 201 THEN StoredWhole ELSE records' = records
     /\ creating' # creating /\ last'.op = "none" => records' = records]_vars

\* C33 witness: a quiz of two questions with two options each was stored
\* whole, and a create of two questions that lost the race for its name was
\* answered 500 and left nothing.
C33_Witness ==
  /\ last.op = "createQuiz" /\ last.code = 500
  /\ Len(last.body.questions) = 2
  /\ Len(quizzes) = 1 /\ Len(questions) = 2 /\ Cardinality(options) = 4
  /\ Len(quiz_assignments) = 1

\* C34: there is at most one Assignment record per (quiz_id, user_id) pair.
C34_OneAssignmentPerPair ==
  \A i, j \in DOMAIN quiz_assignments :
    (/\ quiz_assignments[i].quiz_id = quiz_assignments[j].quiz_id
     /\ quiz_assignments[i].user_id = quiz_assignments[j].user_id) => i = j

\* C35: every Attempt is appended at a moment when its quiz is LIVE and
\* unexpired and its user is assigned to the quiz.
C35_AttemptsWhileEligible ==
  [][Len(quiz_scores') > Len(quiz_scores)
       => LET a == quiz_scores'[Len(quiz_scores')]
          IN Eligible(a.user_id, a.quiz_id)]_vars

\* The questions of quiz q in the question table Q, and the options they
\* own in the option table O.
QuestionsOf(Q, q) == {i \in DOMAIN Q : Q[i].quiz_id = q}
OptionsOf(Q, O, q) == {o \in O : o.question_id \in QuestionsOf(Q, q)}

\* C36: an updateQuiz call addressed to a quiz leaves every other quiz with
\* its scalar fields, its questions, their options and its assignments.
C36_UpdateTouchesItsQuizOnly ==
  [][last'.op = "updateQuiz"
       => \A q \in DOMAIN quizzes \ {last'.quizId} :
            /\ quizzes'[q] = quizzes[q]
            /\ QuestionsOf(questions', q) = QuestionsOf(questions, q)
            /\ \A i \in QuestionsOf(questions, q) : questions'[i] = questions[i]
            /\ OptionsOf(questions', options', q) = OptionsOf(questions, options, q)
            /\ SelectSeq(quiz_assignments', LAMBDA a : a.quiz_id = q)
                 = SelectSeq(quiz_assignments, LAMBDA a : a.quiz_id = q)]_vars

\* C37: every Assignment refers to an existing user whose role is USER.
C37_AssigneesAreExistingParticipants ==
  \A i \in DOMAIN quiz_assignments :
    /\ quiz_assignments[i].user_id \in DOMAIN users
    /\ users[quiz_assignments[i].user_id] = "USER"

\* C38: every stored Attempt has 0 <= score_value_obtained <= score_total.
C38_ScoreWithinTotal ==
  \A i \in DOMAIN quiz_scores :
    /\ 0 <= quiz_scores[i].score_value_obtained
    /\ quiz_scores[i].score_value_obtained <= quiz_scores[i].score_total

\* The name is held by a stored quiz row, whatever its status.
NameHeld(name) == \E i \in DOMAIN quizzes : quizzes[i].name = name

\* C39: a createQuiz with a name that a stored quiz row holds, whatever the
\* status of the row, is refused when it reaches the name lookup, and is
\* never answered 201; it stores nothing.
C39_DeletedQuizKeepsItsName ==
  [][/\ (/\ last'.op = "createQuiz" /\ Has(last'.body, "name")
         /\ NameHeld(last'.body.name))
          => last'.code # 201 /\ records' = records
     /\ \A r \in BagToSet(creating') :
          CopiesIn(r, creating') > CopiesIn(r, creating)
            => ~NameHeld(r.body.name)]_vars

\* C39 witness: a create with the name of a DELETED quiz was answered 400 by
\* the name lookup, the deleted row being the only quiz.
C39_Witness ==
  /\ last.op = "createQuiz" /\ last.code = 400
  /\ last.message = "Quiz with name already exists"
  /\ Len(quizzes) = 1 /\ quizzes[1].status = "DELETED"
  /\ quizzes[1].name = last.body.name

\* C40: an updateQuiz on a stored quiz leaves the assignments as they are
\* when the request has no assigned_user_ids, leaves all questions and
\* options as they are when it has no questions, and leaves each of name,
\* status and expires_at of the quiz as stored when the request omits it.
C40_OmittedIsKept ==
  [][(last'.op = "updateQuiz" /\ last'.quizId \in DOMAIN quizzes)
       => LET b == last'.body
              q == last'.quizId
          IN /\ ~Has(b, "assigned_user_ids")
                  => quiz_assignments' = quiz_assignments
             /\ ~Has(b, "questions")
                  => questions' = questions /\ options' = options
             /\ ~Has(b, "name") => quizzes'[q].name = quizzes[q].name
             /\ ~Has(b, "status") => quizzes'[q].status = quizzes[q].status
             /\ ~Has(b, "expires_at")
                  => quizzes'[q].expires_at = quizzes[q].expires_at]_vars

\* C40 witness: a successful update that gave a new name and nothing else
\* left a LIVE quiz with its expiry, its assignment, its question and its
\* options.
C40_Witness ==
  /\ last.op = "updateQuiz" /\ last.code = 200
  /\ DOMAIN last.body = {"name"}
  /\ quizzes[last.quizId].name = "Gamma"
  /\ quizzes[last.quizId].status = "LIVE"
  /\ quizzes[last.quizId].expires_at = MaxTime
  /\ AssignedUsers(quiz_assignments, last.quizId) = {2}
  /\ OptionsOf(questions, options, last.quizId) # {}

====
